---- MODULE Spec2Model ----
(***************************************************************************)
(* oca-port: the preflight resolution and dispatch layer of the command    *)
(* `oca-port FROM_BRANCH TO_BRANCH ADDON` (src/oca_port/__init__.py).      *)
(*                                                                         *)
(* A branch name is the sequence of its "/"-separated components, so that  *)
(* name.split("/", 1) is <<Head(name)>> and Tail(name), and a ref          *)
(* "origin/14.0" is <<"origin", "14.0">>.  A root tree is the set of the   *)
(* names of its immediate sub-directories.  A message is the sequence of   *)
(* the pieces the f-strings concatenate.                                   *)
(***************************************************************************)
EXTENDS Integers, Sequences, FiniteSets, TLC

VARIABLES
    argv,         \* the parsed command line of the invocation
    repo,         \* git.Repo(): dirty flag, remotes, local heads, remote-tracking refs
    server,       \* the branches the remotes serve: <<remote, branch>> -> root tree
    pc,           \* the statement of main() that runs next
    repo_name,    \* local of main()
    user_org,     \* local of main()
    from_branch,  \* local of main(): the CLI string, then a misc.Branch
    to_branch,    \* local of main(): the CLI string, then a misc.Branch
    fetch_i,      \* _fetch_branches: how many of *branches the loop has consumed
    storage,      \* local of main(): the misc.InputStorage, once constructed
    decision,     \* the collaborator main() constructed, "" before dispatch
    error,        \* the exception that ended the run, "" if none
    error_msg,    \* the message of that exception
    trace,        \* the calls this run has made on the repository and collaborators
    run,          \* the number of this process run
    outcomes      \* the outcomes of the previous process runs

vars == <<argv, repo, server, pc, repo_name, user_org, from_branch, to_branch,
          fetch_i, storage, decision, error, error_msg, trace, run, outcomes>>

locals == <<repo_name, user_org, from_branch, to_branch, fetch_i, storage, decision>>

-----------------------------------------------------------------------------
(* Bounds and the small sets the inputs are drawn from. *)

MaxRuns == 2

None == "None"
RemoteNames == {"origin", "camptocamp"}
ForkArgs == {None, "camptocamp"}
RepoNameArgs == {None, "server-tools"}
SourceArgs == {<<"13.0">>, <<"origin", "13.0">>}
TargetArgs == {<<"14.0">>, <<"origin", "14.0">>}
HeadNames == {<<"13.0">>, <<"14.0">>}
Addon == "shopfloor"
TreeWith == {"shopfloor", "stock"}
TreeWithout == {"Shopfloor", "stock"}
Trees == {TreeWith, TreeWithout}
Cwd == "wms"

Falsy(x) == x \in {None, ""}

-----------------------------------------------------------------------------
(* Messages. *)

RECURSIVE Join(_)
Join(parts) ==
    IF Len(parts) <= 1 THEN parts
    ELSE <<Head(parts), "/">> \o Join(Tail(parts))

Contains(msg, piece) ==
    \E k \in 0..(Len(msg) - Len(piece)) :
        \A j \in 1..Len(piece) : msg[k + j] = piece[j]

-----------------------------------------------------------------------------
(* misc.Branch: resolution of a branch name against a default remote. *)

Str(name) == [kind |-> "str", name |-> name, remote |-> None]

Branch(r, name, default_remote) ==
    IF Len(name) > 1 /\ Head(name) \in r.remotes
    THEN [kind |-> "Branch", name |-> Tail(name), remote |-> Head(name)]
    ELSE IF name \in DOMAIN r.heads
    THEN [kind |-> "Branch", name |-> name, remote |-> None]
    ELSE IF default_remote \in r.remotes
    THEN [kind |-> "Branch", name |-> name, remote |-> default_remote]
    ELSE [kind |-> "ValueError", name |-> name, remote |-> default_remote]

ref(branch) ==
    IF ~Falsy(branch.remote) THEN <<branch.remote>> \o branch.name
    ELSE branch.name

-----------------------------------------------------------------------------
(* The helpers of main(). *)

\* _check_remote with the HTTPS example left out of the message.
_check_remote_ssh_only(rname, r, remote, raise_exc) ==
    IF remote \notin r.remotes
    THEN [raised |-> raise_exc,
          msg |-> <<"No remote ", remote, " in the current repository.",
                    "To add it:",
                    "$ git remote add ", remote, " ",
                    "git@github.com:", remote, "/", rname, ".git">>]
    ELSE [raised |-> FALSE, msg |-> <<>>]

\* _check_remote returning its message whatever raise_exc is.
_check_remote_returns(rname, r, remote, raise_exc) ==
    IF remote \notin r.remotes
    THEN [raised |-> FALSE,
          msg |-> <<"No remote ", remote, " in the current repository.",
                    "To add it:",
                    "$ git remote add ", remote, " ",
                    "git@github.com:", remote, "/", rname, ".git",
                    "Or:",
                    "$ git remote add ", remote, " ",
                    "https://github.com/", remote, "/", rname, ".git">>]
    ELSE [raised |-> FALSE, msg |-> <<>>]

\* _check_remote: the message it builds, or <<>> for Python's None, and
\* whether it raises it.
_check_remote(rname, r, remote, raise_exc) ==
    IF remote \notin r.remotes
    THEN [raised |-> raise_exc,
          msg |-> <<"No remote ", remote, " in the current repository.",
                    "To add it:",
                    "$ git remote add ", remote, " ",
                    "git@github.com:", remote, "/", rname, ".git",
                    "Or:",
                    "$ git remote add ", remote, " ",
                    "https://github.com/", remote, "/", rname, ".git">>]
    ELSE [raised |-> FALSE, msg |-> <<>>]

UserOrgHint == <<"You can change the GitHub organization with the ",
                 "--user-org", " option.">>

\* repo.commit(rev).tree.trees: a local head shadows a remote-tracking ref.
Commit(r, rev) ==
    IF rev \in DOMAIN r.heads THEN [ok |-> TRUE, trees |-> r.heads[rev]]
    ELSE IF rev \in DOMAIN r.refs THEN [ok |-> TRUE, trees |-> r.refs[rev]]
    ELSE [ok |-> FALSE, trees |-> {}]

\* remote.fetch(name): the remote-tracking ref of the branch is overwritten.
FetchOk(remote, name) == <<remote>> \o name \in DOMAIN server

\* remote.fetch(name) that also writes the local head of the branch, as a
\* fetch with the refspec name:name does.
Fetched_into_head(r, remote, name) ==
    [r EXCEPT !.refs = (<<remote>> \o name :> server[<<remote>> \o name]) @@ @,
              !.heads = (name :> server[<<remote>> \o name]) @@ @]

\* remote.fetch(name) that writes FETCH_HEAD only and leaves the
\* remote-tracking ref as it was.
Fetched_fetch_head_only(r, remote, name) == r

Fetched(r, remote, name) ==
    [r EXCEPT !.refs = (<<remote>> \o name :> server[<<remote>> \o name]) @@ @]

\* _check_branches letting a source without remote pass on a local head, as
\* it does the target.
_check_branches_local_source(fb, tb, r) ==
    IF Falsy(fb.remote) /\ fb.name \notin DOMAIN r.heads
    THEN [error |-> "UnresolvableBranch",
          msg |-> <<"No source branch ">> \o Join(ref(fb)) \o <<" available.">>]
    ELSE IF Falsy(tb.remote) /\ tb.name \notin DOMAIN r.heads
    THEN [error |-> "UnresolvableBranch",
          msg |-> <<"No target branch ">> \o Join(tb.name) \o <<" or ">>
                    \o Join(ref(tb)) \o <<" available locally.">>]
    ELSE [error |-> "", msg |-> <<>>]

\* _check_branches: "" when it returns True, else the error it raises.
_check_branches(fb, tb, r) ==
    IF Falsy(fb.remote)
    THEN [error |-> "UnresolvableBranch",
          msg |-> <<"No source branch ">> \o Join(ref(fb)) \o <<" available.">>]
    ELSE IF Falsy(tb.remote) /\ tb.name \notin DOMAIN r.heads
    THEN [error |-> "UnresolvableBranch",
          msg |-> <<"No target branch ">> \o Join(tb.name) \o <<" or ">>
                    \o Join(ref(tb)) \o <<" available locally.">>]
    ELSE [error |-> "", msg |-> <<>>]

\* _check_addon_exists without its `return False`: a missing addon that
\* does not raise falls through to `return True`.
_check_addon_exists_true(addon, branch, r, raise_exc) ==
    LET c == Commit(r, ref(branch)) IN
    IF ~c.ok
    THEN [error |-> "BadName", msg |-> Join(ref(branch)), result |-> FALSE]
    ELSE IF addon \notin c.trees /\ raise_exc
    THEN [error |-> "MissingAddonOnSource",
          msg |-> <<addon, " does not exist on ">> \o Join(ref(branch)),
          result |-> FALSE]
    ELSE [error |-> "", msg |-> <<>>, result |-> TRUE]

\* _check_addon_exists that returns False and never raises.
_check_addon_exists_noraise(addon, branch, r, raise_exc) ==
    LET c == Commit(r, ref(branch)) IN
    IF ~c.ok
    THEN [error |-> "BadName", msg |-> Join(ref(branch)), result |-> FALSE]
    ELSE [error |-> "", msg |-> <<>>, result |-> addon \in c.trees]

\* _check_addon_exists: its result, or the error it raises.
_check_addon_exists(addon, branch, r, raise_exc) ==
    LET c == Commit(r, ref(branch)) IN
    IF ~c.ok
    THEN [error |-> "BadName", msg |-> Join(ref(branch)), result |-> FALSE]
    ELSE IF addon \notin c.trees
    THEN IF ~raise_exc
         THEN [error |-> "", msg |-> <<>>, result |-> FALSE]
         ELSE [error |-> "MissingAddonOnSource",
               msg |-> <<addon, " does not exist on ">> \o Join(ref(branch)),
               result |-> FALSE]
    ELSE [error |-> "", msg |-> <<>>, result |-> TRUE]

-----------------------------------------------------------------------------
(* main(), statement by statement. *)

\* main() fetching only once the checks and the dispatch decision are made.
StepAfter_fetch_late(step) ==
    CASE step = "is_dirty" -> "check_fork"
      [] step = "check_fork" -> "parse_branches"
      [] step = "parse_branches" -> "check_branches"
      [] step = "check_branches" -> "check_addon_source"
      [] step = "check_addon_source" -> "input_storage"
      [] step = "input_storage" -> "dispatch"
      [] step = "dispatch" -> "fetch_branches"
      [] step = "fetch_branches" -> "run"
      [] step = "run" -> "done"

\* main() checking the --fork remote only after the fetch.
StepAfter_fork_late(step) ==
    CASE step = "is_dirty" -> "parse_branches"
      [] step = "parse_branches" -> "fetch_branches"
      [] step = "fetch_branches" -> "check_fork"
      [] step = "check_fork" -> "check_branches"
      [] step = "check_branches" -> "check_addon_source"
      [] step = "check_addon_source" -> "input_storage"
      [] step = "input_storage" -> "dispatch"
      [] step = "dispatch" -> "run"
      [] step = "run" -> "done"

StepAfter(step) ==
    CASE step = "is_dirty" -> "check_fork"
      [] step = "check_fork" -> "parse_branches"
      [] step = "parse_branches" -> "fetch_branches"
      [] step = "fetch_branches" -> "check_branches"
      [] step = "check_branches" -> "check_addon_source"
      [] step = "check_addon_source" -> "input_storage"
      [] step = "input_storage" -> "dispatch"
      [] step = "dispatch" -> "run"
      [] step = "run" -> "done"

Call(op, arg) == <<op, arg>>

Raise(kind, msg) ==
    /\ error' = kind
    /\ error_msg' = msg
    /\ pc' = "done"

Goto(step) ==
    /\ pc' = step
    /\ UNCHANGED <<error, error_msg>>

\* main() going on in a dirty repository.
IsDirty_continues ==
    /\ pc = "is_dirty"
    /\ trace' = Append(trace, Call("is_dirty", <<>>))
    /\ Goto(StepAfter("is_dirty"))
    /\ UNCHANGED <<argv, repo, server, locals, run, outcomes>>

\* repo = git.Repo(); if repo.is_dirty(): raise
IsDirty ==
    /\ pc = "is_dirty"
    /\ trace' = Append(trace, Call("is_dirty", <<>>))
    /\ IF repo.dirty
       THEN Raise("DirtyRepository",
                  <<"changes not committed detected in this repository.">>)
       ELSE Goto(StepAfter("is_dirty"))
    /\ UNCHANGED <<argv, repo, server, locals, run, outcomes>>

\* repo_name, user_org, and the check of the --fork remote
CheckFork ==
    /\ pc = "check_fork"
    /\ repo_name' = (IF Falsy(argv.repo_name) THEN Cwd ELSE argv.repo_name)
    /\ user_org' = (IF Falsy(argv.user_org) THEN argv.fork ELSE argv.user_org)
    /\ IF ~Falsy(argv.fork)
       THEN LET res == _check_remote(repo_name', repo, argv.fork, FALSE) IN
            /\ trace' = Append(trace, Call("_check_remote", <<argv.fork>>))
            /\ IF res.raised
               THEN Raise("UnknownRemote", res.msg)
               ELSE IF res.msg # <<>>
               THEN Raise("UnknownRemote", res.msg \o UserOrgHint)
               ELSE Goto(StepAfter("check_fork"))
       ELSE /\ trace' = trace
            /\ Goto(StepAfter("check_fork"))
    /\ UNCHANGED <<argv, repo, server, from_branch, to_branch, fetch_i,
                   storage, decision, run, outcomes>>

\* try: from_branch = Branch(...); to_branch = Branch(...)
\* except ValueError as exc: _check_remote(repo_name, *exc.args)
ParseBranches ==
    /\ pc = "parse_branches"
    /\ LET fb == Branch(repo, argv.from_branch, argv.upstream)
           tb == Branch(repo, argv.to_branch, argv.upstream)
           raised == fb.kind = "ValueError" \/ tb.kind = "ValueError"
           exc == IF fb.kind = "ValueError" THEN fb ELSE tb
           chk == _check_remote(repo_name, repo, exc.remote, TRUE)
       IN
       /\ from_branch' = (IF fb.kind = "Branch" THEN fb ELSE from_branch)
       /\ to_branch' = (IF ~raised THEN tb ELSE to_branch)
       /\ trace' = trace
             \o <<Call("Branch", argv.from_branch)>>
             \o (IF fb.kind = "Branch"
                 THEN <<Call("Branch", argv.to_branch)>> ELSE <<>>)
             \o (IF raised
                 THEN <<Call("_check_remote", <<exc.remote>>)>> ELSE <<>>)
       /\ IF raised /\ chk.raised
          THEN Raise("UnknownRemote", chk.msg)
          ELSE Goto(StepAfter("parse_branches"))
    /\ UNCHANGED <<argv, repo, server, repo_name, user_org, fetch_i, storage,
                   decision, run, outcomes>>

\* _fetch_branches going on to the next branch when a fetch fails.
FetchBranch_continues ==
    /\ pc = "fetch_branches"
    /\ LET branches == <<from_branch, to_branch>>
           branch == branches[fetch_i + 1]
           after == IF fetch_i + 1 = Len(branches)
                    THEN StepAfter("fetch_branches") ELSE "fetch_branches"
       IN
       /\ fetch_i' = fetch_i + 1
       /\ IF branch.kind # "Branch"
          THEN /\ Raise("AttributeError",
                        <<"'str' object has no attribute 'remote'">>)
               /\ UNCHANGED <<repo, trace>>
          ELSE IF Falsy(branch.remote)
          THEN /\ Goto(after)
               /\ UNCHANGED <<repo, trace>>
          ELSE /\ trace' = Append(trace, Call("fetch", <<branch.remote>>
                                                        \o branch.name))
               /\ repo' = (IF FetchOk(branch.remote, branch.name)
                           THEN Fetched(repo, branch.remote, branch.name)
                           ELSE repo)
               /\ Goto(after)
    /\ UNCHANGED <<argv, server, repo_name, user_org, from_branch, to_branch,
                   storage, decision, run, outcomes>>

\* _fetch_branches taking the branches in the reverse order.
FetchBranch_target_first ==
    /\ pc = "fetch_branches"
    /\ LET branches == <<to_branch, from_branch>>
           branch == branches[fetch_i + 1]
           after == IF fetch_i + 1 = Len(branches)
                    THEN StepAfter("fetch_branches") ELSE "fetch_branches"
       IN
       /\ fetch_i' = fetch_i + 1
       /\ IF branch.kind # "Branch"
          THEN /\ Raise("AttributeError",
                        <<"'str' object has no attribute 'remote'">>)
               /\ UNCHANGED <<repo, trace>>
          ELSE IF Falsy(branch.remote)
          THEN /\ Goto(after)
               /\ UNCHANGED <<repo, trace>>
          ELSE /\ trace' = Append(trace, Call("fetch", <<branch.remote>>
                                                        \o branch.name))
               /\ IF FetchOk(branch.remote, branch.name)
                  THEN /\ repo' = Fetched(repo, branch.remote, branch.name)
                       /\ Goto(after)
                  ELSE /\ Raise("FetchFailure", Join(ref(branch)))
                       /\ UNCHANGED repo
    /\ UNCHANGED <<argv, server, repo_name, user_org, from_branch, to_branch,
                   storage, decision, run, outcomes>>

\* _fetch_branches(from_branch, to_branch, verbose=verbose): one turn of the loop
FetchBranch ==
    /\ pc = "fetch_branches"
    /\ LET branches == <<from_branch, to_branch>>
           branch == branches[fetch_i + 1]
           after == IF fetch_i + 1 = Len(branches)
                    THEN StepAfter("fetch_branches") ELSE "fetch_branches"
       IN
       /\ fetch_i' = fetch_i + 1
       /\ IF branch.kind # "Branch"
          THEN /\ Raise("AttributeError",
                        <<"'str' object has no attribute 'remote'">>)
               /\ UNCHANGED <<repo, trace>>
          ELSE IF Falsy(branch.remote)
          THEN /\ Goto(after)
               /\ UNCHANGED <<repo, trace>>
          ELSE IF branch.remote \notin repo.remotes
          THEN /\ Raise("IndexError", <<branch.remote>>)
               /\ UNCHANGED <<repo, trace>>
          ELSE /\ trace' = trace
                    \o (IF argv.verbose
                        THEN <<Call("print", ref(branch))>> ELSE <<>>)
                    \o <<Call("fetch", <<branch.remote>> \o branch.name)>>
               /\ IF FetchOk(branch.remote, branch.name)
                  THEN /\ repo' = Fetched(repo, branch.remote, branch.name)
                       /\ Goto(after)
                  ELSE /\ Raise("FetchFailure", Join(ref(branch)))
                       /\ UNCHANGED repo
    /\ UNCHANGED <<argv, server, repo_name, user_org, from_branch, to_branch,
                   storage, decision, run, outcomes>>

\* _check_branches(from_branch, to_branch)
CheckBranches ==
    /\ pc = "check_branches"
    /\ LET res == _check_branches(from_branch, to_branch, repo) IN
       /\ trace' = Append(trace, Call("_check_branches", <<>>))
       /\ IF res.error # ""
          THEN Raise(res.error, res.msg)
          ELSE Goto(StepAfter("check_branches"))
    /\ UNCHANGED <<argv, repo, server, locals, run, outcomes>>

\* _check_addon_exists(addon, from_branch, raise_exc=True)
CheckAddonSource ==
    /\ pc = "check_addon_source"
    /\ LET res == _check_addon_exists(argv.addon, from_branch, repo, TRUE) IN
       /\ trace' = Append(trace, Call("_check_addon_exists", ref(from_branch)))
       /\ IF res.error # ""
          THEN Raise(res.error, res.msg)
          ELSE Goto(StepAfter("check_addon_source"))
    /\ UNCHANGED <<argv, repo, server, locals, run, outcomes>>

\* storage = misc.InputStorage(to_branch, addon)
NewInputStorage ==
    /\ pc = "input_storage"
    /\ storage' = <<ref(to_branch), <<argv.addon>>>>
    /\ trace' = Append(trace, Call("InputStorage", ref(to_branch)))
    /\ Goto(StepAfter("input_storage"))
    /\ UNCHANGED <<argv, repo, server, repo_name, user_org, from_branch,
                   to_branch, fetch_i, decision, run, outcomes>>

\* if _check_addon_exists(addon, to_branch): PortAddonPullRequest(...)
\* else: MigrateAddon(...)
Dispatch ==
    /\ pc = "dispatch"
    /\ LET res == _check_addon_exists(argv.addon, to_branch, repo, FALSE)
           cls == IF res.result THEN "PortAddonPullRequest" ELSE "MigrateAddon"
       IN
       /\ IF res.error # ""
          THEN /\ trace' = Append(trace,
                                  Call("_check_addon_exists", ref(to_branch)))
               /\ Raise(res.error, res.msg)
               /\ UNCHANGED decision
          ELSE /\ trace' = trace
                    \o <<Call("_check_addon_exists", ref(to_branch)),
                         Call(cls, <<>>)>>
               /\ decision' = cls
               /\ Goto(StepAfter("dispatch"))
    /\ UNCHANGED <<argv, repo, server, repo_name, user_org, from_branch,
                   to_branch, fetch_i, storage, run, outcomes>>

\* The dispatcher running the collaborator again when it raises.
RunCollaborator_retry ==
    /\ pc = "run"
    /\ trace' = Append(trace, Call("run", <<decision>>))
    /\ \E raises \in BOOLEAN :
          IF raises THEN Goto("run") ELSE Goto(StepAfter("run"))
    /\ UNCHANGED <<argv, repo, server, locals, run, outcomes>>

\* The dispatcher catching the failure of the collaborator and falling back
\* on the other one.
RunCollaborator_fallback ==
    /\ pc = "run"
    /\ \E raises \in BOOLEAN :
          IF raises
          THEN LET other == CHOOSE c \in {"PortAddonPullRequest", "MigrateAddon"} :
                                c # decision
               IN /\ trace' = trace \o <<Call("run", <<decision>>),
                                          Call(other, <<>>)>>
                  /\ decision' = other
                  /\ Goto("run")
          ELSE /\ trace' = Append(trace, Call("run", <<decision>>))
               /\ UNCHANGED decision
               /\ Goto(StepAfter("run"))
    /\ UNCHANGED <<argv, repo, server, repo_name, user_org, from_branch,
                   to_branch, fetch_i, storage, run, outcomes>>

\* .run() of the collaborator: it returns, or it raises
RunCollaborator ==
    /\ pc = "run"
    /\ trace' = Append(trace, Call("run", <<decision>>))
    /\ \E raises \in BOOLEAN :
          IF raises
          THEN Raise("CollaboratorError", <<decision>>)
          ELSE Goto(StepAfter("run"))
    /\ UNCHANGED <<argv, repo, server, locals, run, outcomes>>

\* What a process run ended in: the collaborator dispatched to, else the error.
Outcome == IF decision # "" THEN decision ELSE error

\* The same command line is run again in the repository as the run left it.
Rerun ==
    /\ pc = "done"
    /\ run < MaxRuns
    /\ run' = run + 1
    /\ outcomes' = Append(outcomes, Outcome)
    /\ pc' = "is_dirty"
    /\ repo_name' = None
    /\ user_org' = None
    /\ from_branch' = Str(argv.from_branch)
    /\ to_branch' = Str(argv.to_branch)
    /\ fetch_i' = 0
    /\ storage' = <<>>
    /\ decision' = ""
    /\ error' = ""
    /\ error_msg' = <<>>
    /\ trace' = <<>>
    /\ UNCHANGED <<argv, repo, server>>

-----------------------------------------------------------------------------

\* The remote-tracking refs the invocation can touch.
Touched(r, a) ==
    LET fb == Branch(r, a.from_branch, a.upstream)
        tb == Branch(r, a.to_branch, a.upstream)
    IN {ref(b) : b \in {x \in {fb, tb} : x.kind = "Branch" /\ ~Falsy(x.remote)}}

Init ==
    /\ \E f \in SourceArgs, t \in TargetArgs, u \in RemoteNames,
          k \in ForkArgs, n \in RepoNameArgs, v \in BOOLEAN :
          argv = [from_branch |-> f, to_branch |-> t, addon |-> Addon,
                  upstream |-> u, repo_name |-> n, fork |-> k,
                  user_org |-> None, verbose |-> v]
    /\ \E d \in BOOLEAN, rs \in SUBSET RemoteNames, hs \in SUBSET HeadNames :
       \E ht \in [hs -> Trees] :
       \E ks \in SUBSET Touched([remotes |-> rs, heads |-> ht], argv) :
       \E rt \in [ks -> Trees] :
          repo = [dirty |-> d, remotes |-> rs, heads |-> ht, refs |-> rt]
    /\ \E ks \in SUBSET Touched(repo, argv) : server \in [ks -> Trees]
    /\ pc = "is_dirty"
    /\ repo_name = None
    /\ user_org = None
    /\ from_branch = Str(argv.from_branch)
    /\ to_branch = Str(argv.to_branch)
    /\ fetch_i = 0
    /\ storage = <<>>
    /\ decision = ""
    /\ error = ""
    /\ error_msg = <<>>
    /\ trace = <<>>
    /\ run = 1
    /\ outcomes = <<>>

Next ==
    \/ IsDirty
    \/ CheckFork
    \/ ParseBranches
    \/ FetchBranch
    \/ CheckBranches
    \/ CheckAddonSource
    \/ NewInputStorage
    \/ Dispatch
    \/ RunCollaborator
    \/ Rerun

Spec == Init /\ [][Next]_vars

-----------------------------------------------------------------------------
(* _check_branches on any pair of branch references: the run is taken up at  *)
(* line 109 with references of every shape, bound to a remote or not, a     *)
(* local head of the name or not.                                           *)

BranchRemotes == {None, "origin"}

InitCB ==
    /\ \E k \in ForkArgs, n \in RepoNameArgs, v \in BOOLEAN :
          argv = [from_branch |-> <<"13.0">>, to_branch |-> <<"14.0">>,
                  addon |-> Addon, upstream |-> "origin", repo_name |-> n,
                  fork |-> k, user_org |-> None, verbose |-> v]
    /\ \E fr \in BranchRemotes, tr \in BranchRemotes :
          /\ from_branch = [kind |-> "Branch", name |-> argv.from_branch,
                            remote |-> fr]
          /\ to_branch = [kind |-> "Branch", name |-> argv.to_branch,
                          remote |-> tr]
    /\ \E hs \in SUBSET HeadNames : \E ht \in [hs -> Trees] :
       \E rt \in [{ref(b) : b \in {x \in {from_branch, to_branch} :
                                      ~Falsy(x.remote)}} -> Trees] :
          repo = [dirty |-> FALSE, remotes |-> {"origin"} \cup ({argv.fork} \ {None}),
                  heads |-> ht, refs |-> rt]
    /\ server = repo.refs
    /\ pc = "check_branches"
    /\ repo_name = (IF Falsy(argv.repo_name) THEN Cwd ELSE argv.repo_name)
    /\ user_org = argv.fork
    /\ fetch_i = 2
    /\ storage = <<>>
    /\ decision = ""
    /\ error = ""
    /\ error_msg = <<>>
    /\ trace = <<>>
    /\ run = 1
    /\ outcomes = <<>>

NextCB ==
    \/ CheckBranches
    \/ CheckAddonSource
    \/ NewInputStorage
    \/ Dispatch
    \/ RunCollaborator

SpecCB == InitCB /\ [][NextCB]_vars

-----------------------------------------------------------------------------
(* The handler of lines 106-107 on any ValueError: the constructor of       *)
(* Branch resolves the name, or raises ValueError(repo, remote) for a       *)
(* remote that is or is not a remote of the repository.                     *)

BranchOutcomes(name) ==
    {Branch(repo, name, argv.upstream)}
        \cup {[kind |-> "ValueError", name |-> name, remote |-> r] :
                 r \in RemoteNames}

ParseBranchesAny ==
    /\ pc = "parse_branches"
    /\ \E fb \in BranchOutcomes(argv.from_branch),
          tb \in BranchOutcomes(argv.to_branch) :
       LET raised == fb.kind = "ValueError" \/ tb.kind = "ValueError"
           exc == IF fb.kind = "ValueError" THEN fb ELSE tb
           chk == _check_remote(repo_name, repo, exc.remote, TRUE)
       IN
       /\ from_branch' = (IF fb.kind = "Branch" THEN fb ELSE from_branch)
       /\ to_branch' = (IF ~raised THEN tb ELSE to_branch)
       /\ trace' = trace
             \o <<Call("Branch", argv.from_branch)>>
             \o (IF fb.kind = "Branch"
                 THEN <<Call("Branch", argv.to_branch)>> ELSE <<>>)
             \o (IF raised
                 THEN <<Call("_check_remote", <<exc.remote>>)>> ELSE <<>>)
       /\ IF raised /\ chk.raised
          THEN Raise("UnknownRemote", chk.msg)
          ELSE Goto(StepAfter("parse_branches"))
    /\ UNCHANGED <<argv, repo, server, repo_name, user_org, fetch_i, storage,
                   decision, run, outcomes>>

NextVE ==
    \/ IsDirty
    \/ CheckFork
    \/ ParseBranchesAny
    \/ FetchBranch
    \/ CheckBranches
    \/ CheckAddonSource
    \/ NewInputStorage
    \/ Dispatch
    \/ RunCollaborator

SpecVE == Init /\ [][NextVE]_vars

-----------------------------------------------------------------------------
(* Properties. *)

Calls(op) == {i \in 1..Len(trace) : trace[i][1] = op}
Count(op) == Cardinality(Calls(op))
Collaborators == {"PortAddonPullRequest", "MigrateAddon"}
NothingDispatched ==
    /\ storage = <<>>
    /\ decision = ""
    /\ Count("InputStorage") = 0
    /\ Count("PortAddonPullRequest") = 0
    /\ Count("MigrateAddon") = 0
    /\ Count("run") = 0

\* C1: in a dirty repository the run ends in DirtyRepository having made no
\* call but is_dirty: no remote check, no branch resolution, no fetch, no
\* collaborator; and in every run is_dirty is the first call and is made once.
C1_DirtyAbortsFirst ==
    /\ trace # <<>> => trace[1] = Call("is_dirty", <<>>) /\ Count("is_dirty") = 1
    /\ pc # "is_dirty" /\ repo.dirty =>
          /\ pc = "done"
          /\ error = "DirtyRepository"
          /\ trace = <<Call("is_dirty", <<>>)>>
          /\ from_branch.kind = "str" /\ to_branch.kind = "str"
          /\ NothingDispatched

C1_Witness == repo.dirty /\ pc = "done" /\ error = "DirtyRepository"

\* The addon is among the directories of the root tree of the target ref.
PresentOnTarget ==
    /\ to_branch.kind = "Branch"
    /\ Commit(repo, ref(to_branch)).ok
    /\ Addon \in Commit(repo, ref(to_branch)).trees

PastDispatch == pc = "run" \/ (pc = "done" /\ Count("InputStorage") = 1)

\* C2: once dispatch is passed, the collaborator constructed and run is
\* PortAddonPullRequest if the addon is in the root tree of the target ref
\* and MigrateAddon if it is not, whatever the other options are; the other
\* collaborator is neither constructed nor run.
C2_DispatchByTargetPresence ==
    PastDispatch =>
        LET cls == IF PresentOnTarget THEN "PortAddonPullRequest"
                   ELSE "MigrateAddon"
        IN /\ decision = cls
           /\ Count(cls) = 1
           /\ \A other \in Collaborators \ {cls} : Count(other) = 0
           /\ \A i \in Calls("run") : trace[i][2] = <<cls>>
           /\ pc = "done" => Count("run") = 1

C2_Witness ==
    /\ pc = "done" /\ decision = "MigrateAddon" /\ ~PresentOnTarget
    /\ argv.fork # None /\ argv.verbose

\* The addon is missing from the root tree of the source ref.
AbsentOnSource ==
    /\ from_branch.kind = "Branch"
    /\ Commit(repo, ref(from_branch)).ok
    /\ Addon \notin Commit(repo, ref(from_branch)).trees

\* C3: a run that checks the addon on a source where it is missing ends in
\* MissingAddonOnSource, whether the target has the addon or not, and no run
\* that ends with the addon missing on the source has constructed the input
\* storage or constructed or run a collaborator.
C3_MissingOnSourceIsFatal ==
    /\ Count("_check_addon_exists") >= 1 /\ AbsentOnSource =>
          /\ pc = "done"
          /\ error = "MissingAddonOnSource"
          /\ Count("_check_addon_exists") = 1
    /\ pc = "done" /\ AbsentOnSource => error # "" /\ NothingDispatched

C3_Witness ==
    /\ pc = "done" /\ error = "MissingAddonOnSource" /\ AbsentOnSource
    /\ PresentOnTarget

\* The repository name the messages use.
ResolvedRepoName ==
    IF argv.repo_name = None THEN Cwd ELSE argv.repo_name

SshExample(remote) ==
    <<"$ git remote add ", remote, " ",
      "git@github.com:", remote, "/", ResolvedRepoName, ".git">>
HttpsExample(remote) ==
    <<"$ git remote add ", remote, " ",
      "https://github.com/", remote, "/", ResolvedRepoName, ".git">>

PastCheckFork == pc \notin {"is_dirty", "check_fork"} /\ ~repo.dirty

\* C4: with a clean tree and --fork F, F not a remote: the run ends in
\* UnknownRemote after is_dirty and the check of F alone (no branch is
\* resolved, nothing is fetched) and the message holds the SSH and the HTTPS
\* remote-add examples for F and the repository name (--repo-name, else the
\* basename of the current directory).  F a remote: the check returns no
\* message and the run goes on to resolve the branches.
C4_UnknownForkRemote ==
    PastCheckFork /\ argv.fork # None =>
        IF argv.fork \notin repo.remotes
        THEN /\ pc = "done"
             /\ error = "UnknownRemote"
             /\ trace = <<Call("is_dirty", <<>>),
                          Call("_check_remote", <<argv.fork>>)>>
             /\ from_branch.kind = "str" /\ to_branch.kind = "str"
             /\ Contains(error_msg, SshExample(argv.fork))
             /\ Contains(error_msg, HttpsExample(argv.fork))
        ELSE /\ trace[2] = Call("_check_remote", <<argv.fork>>)
             /\ pc = "done" => /\ Len(trace) > 2
                               /\ trace[3] = Call("Branch", argv.from_branch)
             /\ error = "UnknownRemote" =>
                   ~Contains(error_msg, <<"No remote ", argv.fork>>)

C4_Witness ==
    /\ pc = "done" /\ error = "UnknownRemote" /\ argv.fork # None
    /\ argv.fork \notin repo.remotes /\ argv.repo_name = None
    /\ argv.upstream \in repo.remotes

\* The resolution of the source or of the target fails for want of the
\* default remote.
DefaultRemoteMissing ==
    /\ argv.upstream \notin repo.remotes
    /\ \/ Branch(repo, argv.from_branch, argv.upstream).kind = "ValueError"
       \/ Branch(repo, argv.to_branch, argv.upstream).kind = "ValueError"

\* C5: when the resolution of the source or target branch fails because the
\* default remote is not a remote of the repository, the run ends in
\* UnknownRemote with the message of _check_remote for that remote, and no
\* fetch has been issued.
C5_DefaultRemoteMissing ==
    Count("Branch") >= 1 /\ DefaultRemoteMissing =>
        /\ pc = "done"
        /\ error = "UnknownRemote"
        /\ trace[Len(trace)] = Call("_check_remote", <<argv.upstream>>)
        /\ Contains(error_msg, <<"No remote ", argv.upstream>>)
        /\ Contains(error_msg, SshExample(argv.upstream))
        /\ Contains(error_msg, HttpsExample(argv.upstream))
        /\ ~Contains(error_msg, UserOrgHint)
        /\ Count("fetch") = 0
        /\ fetch_i = 0
        /\ NothingDispatched

C5_Witness ==
    /\ pc = "done" /\ DefaultRemoteMissing /\ Count("Branch") = 2
    /\ from_branch.kind = "Branch"

\* The fetch call trace[i] failed.
FetchFailed(i) == trace[i][2] \notin DOMAIN server

\* C6: a fetch that fails is the last call of its run: the run ends in
\* FetchFailure, the target is not fetched after a failed fetch of the
\* source, and no branch check, addon check, storage or collaborator follows.
C6_FetchFailureAborts ==
    /\ \A i \in Calls("fetch") : FetchFailed(i) =>
          /\ i = Len(trace)
          /\ pc = "done"
          /\ error = "FetchFailure"
    /\ error = "FetchFailure" =>
          /\ pc = "done"
          /\ Count("_check_branches") = 0
          /\ Count("_check_addon_exists") = 0
          /\ NothingDispatched
          /\ trace[Len(trace)][1] = "fetch"
          /\ trace[Len(trace)][2] = ref(from_branch) => Count("fetch") = 1

C6_Witness ==
    /\ error = "FetchFailure" /\ Count("fetch") = 1
    /\ trace[Len(trace)][2] = ref(from_branch)
    /\ ref(to_branch) \in DOMAIN server

\* C7: _check_branches raises exactly when the source has no bound remote
\* (a local head of its name does not help) or the target has neither a
\* bound remote nor a local head of its name; when it raises, no addon is
\* checked and no collaborator is constructed or run.
C7_CheckBranches ==
    Count("_check_branches") = 1 =>
        /\ (\/ from_branch.remote = None
            \/ to_branch.remote = None /\ to_branch.name \notin DOMAIN repo.heads)
           <=> error = "UnresolvableBranch"
        /\ error = "UnresolvableBranch" =>
              /\ pc = "done"
              /\ trace[Len(trace)] = Call("_check_branches", <<>>)
              /\ Count("_check_addon_exists") = 0
              /\ NothingDispatched

C7_Witness ==
    /\ error = "UnresolvableBranch"
    /\ from_branch.remote = None /\ from_branch.name \in DOMAIN repo.heads
    /\ to_branch.remote # None

\* C8: in a process run each collaborator is constructed and run at most
\* once and never both; the target is checked for the addon at most once; a
\* run that passes every precondition runs exactly one collaborator, and
\* ends without error when that returns.
C8_AtMostOneCollaboratorRun ==
    /\ Count("run") <= 1
    /\ Count("PortAddonPullRequest") + Count("MigrateAddon") <= 1
    /\ Count("_check_addon_exists") <= 2
    /\ \A i \in Calls("run") : trace[i][2] = <<decision>>
    /\ pc = "done" /\ decision # "" =>
          /\ Count("run") = 1
          /\ Count(decision) = 1
          /\ error \in {"", "CollaboratorError"}
    /\ pc = "done" /\ error = "" => Count("run") = 1 /\ decision # ""

C8_Witness == pc = "done" /\ error = "" /\ Count("run") = 1 /\ run = 2

\* C9: a run of the same command line in the repository as the previous run
\* left it, the remotes serving the same branches, ends as the previous run
\* did: in the same error, or dispatching to the same collaborator.
C9_Idempotent ==
    pc = "done" => \A i \in 1..Len(outcomes) : outcomes[i] = Outcome

C9_Witness ==
    /\ pc = "done" /\ run = 2 /\ decision = "PortAddonPullRequest"
    /\ Count("fetch") = 2

PreflightErrors ==
    {"DirtyRepository", "UnknownRemote", "UnresolvableBranch",
     "MissingAddonOnSource"}

\* C10 as stated: a run that ends in a preflight error has fetched nothing.
C10_NoFetchBeforeAnyError ==
    error \in PreflightErrors => Count("fetch") = 0

\* C10: a run that ends in DirtyRepository or UnknownRemote has fetched
\* nothing; UnresolvableBranch and MissingAddonOnSource are raised once the
\* fetch loop is over, MissingAddonOnSource after the fetch of the source.
C10_EarlyErrorsBeforeFetch ==
    /\ error \in {"DirtyRepository", "UnknownRemote"} =>
          Count("fetch") = 0 /\ fetch_i = 0
    /\ error \in {"UnresolvableBranch", "MissingAddonOnSource"} => fetch_i = 2
    /\ error = "MissingAddonOnSource" =>
          \E i \in Calls("fetch") : trace[i][2] = ref(from_branch)

C10_Witness ==
    /\ error = "UnresolvableBranch" /\ Count("fetch") = 1
    /\ argv.fork # None

\* The fetch calls of the run, in the order they were made.
Fetches == SelectSeq(trace, LAMBDA e : e[1] = "fetch")

\* The references with a bound remote among the first k of (source, target).
BoundAmong(k) ==
    SelectSeq(SubSeq(<<from_branch, to_branch>>, 1, k),
              LAMBDA b : b.remote # None)

\* The statements of main() after the call of _fetch_branches.
AfterFetchSteps ==
    {"check_branches", "check_addon_source", "input_storage", "dispatch", "run"}

\* C11: at every point of the loop of _fetch_branches the fetches issued are,
\* in order, one per reference with a bound remote among those the loop has
\* consumed (source first), each of that reference's branch name from that
\* reference's remote; a reference without remote is skipped; once the loop
\* is over the fetches are as many as the references with a bound remote.
C11_OneFetchPerBoundRemote ==
    /\ Len(Fetches) = Len(BoundAmong(fetch_i))
    /\ \A k \in 1..Len(Fetches) :
          Fetches[k][2] = <<BoundAmong(fetch_i)[k].remote>>
                              \o BoundAmong(fetch_i)[k].name
    /\ pc \in AfterFetchSteps =>
          /\ fetch_i = 2
          /\ Len(Fetches) = Len(BoundAmong(2))

C11_Witness ==
    /\ pc = "check_branches" /\ Count("fetch") = 1
    /\ from_branch.remote = "origin" /\ to_branch.remote = None
    /\ argv.upstream = "camptocamp"

\* The preflight step the call trace[i] belongs to.  _check_remote is the
\* check of the --fork remote until a Branch is constructed and the handler
\* of a failed resolution after; InputStorage follows the source addon check.
StepOf(i) ==
    LET op == trace[i][1]
        Earlier(o) == \E j \in 1..(i - 1) : trace[j][1] = o
    IN CASE op = "is_dirty" -> "dirty"
         [] op = "_check_remote" ->
                IF Earlier("Branch") THEN "resolution" ELSE "fork"
         [] op = "Branch" -> "resolution"
         [] op \in {"print", "fetch"} -> "fetch"
         [] op = "_check_branches" -> "branches"
         [] op = "_check_addon_exists" ->
                IF Earlier("_check_addon_exists") THEN "addon_target"
                ELSE "addon_source"
         [] op = "InputStorage" -> "addon_source"
         [] OTHER -> "dispatch"

Pos(order, step) == CHOOSE k \in 1..Len(order) : order[k] = step

\* The calls of the run were made step by step in the given order.
InOrder(order) ==
    \A i, j \in 1..Len(trace) :
        i < j => Pos(order, StepOf(i)) <= Pos(order, StepOf(j))

Stepped(step) == \E i \in 1..Len(trace) : StepOf(i) = step

\* A step has run only if the steps before it have run and succeeded.
EachAfterSuccess ==
    /\ error # "" => pc = "done"
    /\ Stepped("fork") \/ Stepped("resolution") => ~repo.dirty
    /\ Stepped("fork") <=> PastCheckFork /\ argv.fork # None
    /\ Stepped("resolution") /\ argv.fork # None => argv.fork \in repo.remotes
    /\ Stepped("fetch") \/ pc \in AfterFetchSteps =>
          /\ Count("Branch") = 2
          /\ from_branch.kind = "Branch" /\ to_branch.kind = "Branch"
    /\ Stepped("branches") =>
          /\ fetch_i = 2
          /\ \A i \in Calls("fetch") : ~FetchFailed(i)
    /\ Stepped("addon_source") =>
          /\ Stepped("branches")
          /\ _check_branches(from_branch, to_branch, repo).error = ""
    /\ Stepped("addon_target") =>
          /\ Count("InputStorage") = 1
          /\ ~AbsentOnSource
    /\ Stepped("dispatch") => Count("_check_addon_exists") = 2

\* C12 as stated: branch resolution, then the dirty check, then the check
\* of the fork remote, then fetch, branch check, addon checks and dispatch.
C12_OrderAsStated ==
    InOrder(<<"resolution", "dirty", "fork", "fetch", "branches",
              "addon_source", "addon_target", "dispatch">>)

\* C12: the steps run in the order dirty check, check of the fork remote
\* (if requested), resolution of source and target, fetch, branch check,
\* addon check on the source, addon check on the target, dispatch, each
\* only after the one before it succeeded.
C12_OrderOfMain ==
    /\ InOrder(<<"dirty", "fork", "resolution", "fetch", "branches",
                 "addon_source", "addon_target", "dispatch">>)
    /\ EachAfterSuccess

C12_Witness ==
    /\ pc = "done" /\ error = "" /\ argv.fork # None /\ Count("fetch") = 2
    /\ \A s \in {"dirty", "fork", "resolution", "fetch", "branches",
                 "addon_source", "addon_target", "dispatch"} : Stepped(s)

\* A step of the preflight layer leaves the working tree and index (the
\* dirty flag), the local heads and the remotes as they are; it changes the
\* remote-tracking refs only in _fetch_branches, and then only the ref of a
\* branch reference of the run, to what its remote serves.
FrameStep ==
    pc # "run" =>
        /\ repo'.dirty = repo.dirty
        /\ repo'.heads = repo.heads
        /\ repo'.remotes = repo.remotes
        /\ pc \in {"is_dirty", "check_fork", "parse_branches"} => repo' = repo
        /\ repo'.refs # repo.refs =>
              /\ pc = "fetch_branches"
              /\ \E b \in {from_branch, to_branch} :
                    /\ b.remote # None
                    /\ ref(b) \in DOMAIN server
                    /\ DOMAIN repo'.refs = DOMAIN repo.refs \cup {ref(b)}
                    /\ repo'.refs[ref(b)] = server[ref(b)]
                    /\ \A k \in DOMAIN repo.refs \ {ref(b)} :
                          repo'.refs[k] = repo.refs[k]

\* C13: up to dispatch no step changes the working tree, the index, the
\* local heads or the remotes; only the fetch step changes remote-tracking
\* refs, those of the fetched branches; the check of a remote changes
\* nothing, whether it passes or fails.
C13_PreflightFrame == [][FrameStep]_vars

C13_Witness ==
    /\ pc = "dispatch" /\ Count("fetch") = 2 /\ Count("_check_remote") = 1
    /\ repo.refs = server /\ repo.heads # <<>>

\* C14: the call of run() is the last call of the process run, whether it
\* returns or raises; when it raises the run ends in that failure as it is,
\* the other collaborator is neither constructed nor run, and the selected
\* one is not run again.
C14_CollaboratorFailurePropagates ==
    /\ Count("run") > 0 =>
          /\ pc = "done"
          /\ Count("run") = 1
          /\ trace[Len(trace)] = Call("run", <<decision>>)
    /\ error = "CollaboratorError" =>
          /\ pc = "done"
          /\ error_msg = <<decision>>
          /\ Count("run") = 1
          /\ Count(decision) = 1
          /\ \A other \in Collaborators \ {decision} : Count(other) = 0

C14_Witness ==
    /\ pc = "done" /\ error = "CollaboratorError"
    /\ decision = "MigrateAddon" /\ Count("run") = 1

\* The handler of a failed resolution has run.
HandlerRan ==
    \E i \in Calls("_check_remote") : StepOf(i) = "resolution"

FreshTree(b) ==
    IF b.remote # None THEN server[ref(b)] ELSE repo.heads[b.name]

\* C16: an addon check is made only once the fetch loop is over with every
\* fetch successful; the remote-tracking ref of a remote-backed source or
\* target then holds what its remote serves, fetched in this run, and the
\* dispatch decision is the presence of the addon in that tree, or in the
\* local head for a target without remote.
C16_PresenceReadsFetchedRefs ==
    /\ Count("_check_addon_exists") >= 1 =>
          /\ fetch_i = 2
          /\ \A i \in Calls("fetch") :
                /\ ~FetchFailed(i)
                /\ \A j \in Calls("_check_addon_exists") : i < j
          /\ \A b \in {from_branch, to_branch} :
                IF b.remote # None
                THEN /\ \E i \in Calls("fetch") : trace[i][2] = ref(b)
                     /\ ref(b) \in DOMAIN repo.refs
                     /\ ref(b) \in DOMAIN server
                     /\ repo.refs[ref(b)] = server[ref(b)]
                     /\ Commit(repo, ref(b)).trees = FreshTree(b)
                ELSE /\ b.name \in DOMAIN repo.heads
                     /\ Commit(repo, ref(b)).trees = FreshTree(b)
    /\ PastDispatch =>
          decision = (IF Addon \in FreshTree(to_branch)
                      THEN "PortAddonPullRequest" ELSE "MigrateAddon")

C16_Witness ==
    /\ PastDispatch /\ run = 1 /\ decision = "MigrateAddon"
    /\ to_branch.remote # None /\ from_branch.remote # to_branch.remote

====
